---------------------------- MODULE Spec2Model ----------------------------
(***************************************************************************)
(* dragonmasher: the merge core, the source lifecycle and the parsers.     *)
(*                                                                         *)
(*   utils.update_dict(d, other, allow_duplicates, annotate)               *)
(*   data.mash(args..., annotate)                                           *)
(*   sources.BaseSource / BaseRemoteSource / BaseRemoteArchiveSource:      *)
(*       the constructor, download, extract, read                          *)
(*   sources.SUBTLEX.process_file, sources.LWCWords.process_file           *)
(*   sources.CSVMixin.process_file (HSK, the Jun Da lists)                 *)
(*   sources.CEDICT.process_file, sources.Unihan.process_file and read     *)
(*                                                                         *)
(* A dataset is a Python dict of dicts: key -> Record, Record = attribute  *)
(* name -> value, a value being a string or a list (of strings, or of the  *)
(* entries of the dictionary).  Python                                     *)
(* lists are objects with identity: update_dict stores references to the   *)
(* lists of `other` in `d` and extends lists in place, so the lists live   *)
(* in a heap and a list-valued attribute holds a reference into it.        *)
(***************************************************************************)
EXTENDS Integers, Sequences, FiniteSets, TLC

VARIABLES
    heap,    \* the list objects: heap[r] is the contents of list object r
    src,     \* the caller's datasets, by object name
    out,     \* what the last call handed back: a return value or an exception
    call,    \* the last call: operation and arguments
    pre,     \* heap and src as they were when the last call was made
    calls,   \* number of calls made so far
    site,    \* a source class and the files behind it (fixed in a behaviour)
    inst,    \* the current instance of that source class
    env,     \* what outlives an instance: the cache entry, the temp directories
    last,    \* the last method call on a source, and inst and env before it
    ops,     \* number of method calls and constructions made so far
    pf       \* a parser: its class, the rows of its file(s), the result

mergeVars == <<heap, src, out, call, pre, calls>>
sourceVars == <<site, inst, env, last, ops>>
vars == <<heap, src, out, call, pre, calls, site, inst, env, last, ops, pf>>

---------------------------------------------------------------------------
(* Bounds *)

\* update_dict calls made in one behaviour
MaxCalls == 2
\* positional arguments handed to mash
MaxArgs == 3
\* method calls and constructions on a source in one behaviour
MaxOps == 4
\* files in an archive, or files of a local source
MaxFiles == 2
\* lines in the file, or files, a parser is run on
MaxRows == 3

---------------------------------------------------------------------------
(* Values *)

\* the class attributes of SUBTLEX (sources.py 554-562, index_column of
\* CSVMixin) and the locals of its process_file (lines 603-605, 621)
SUBTLEX ==
    [name |-> "SUBTLEX",
     headers |-> <<"word", "length", "pinyin", "pinyin.input", "wcount",
                   "w.million", "log10w", "w-cd", "w-cd%", "log10cd",
                   "dominant.pos", "dominant.pos.freq", "all.pos",
                   "all.pos.freq", "english">>,
     index_column |-> 0,
     exclude |-> {14},
     comments |-> {"\\ufeff", "W"},
     count_column |-> 4,
     cjk_only |-> FALSE]

\* the class attributes of LWCWords (lines 1004-1011) and the locals of its
\* process_file (lines 1050-1052, 1068); its process_row skips words without
\* a Chinese character
LWCWords ==
    [name |-> "LWC",
     headers |-> <<"word-id", "word", "reverse-of-word", "count">>,
     index_column |-> 1,
     exclude |-> {2},
     comments |-> {"#"},
     count_column |-> 3,
     cjk_only |-> TRUE]

Keys == {"k1", "k2"}
Attrs == {"a", "b"}
Objs == {"A", "B"}

\* iteration order of dict.items() over the attribute names of a Record and
\* over the keys of a dataset.  The order is not observable here: between
\* two datasets a list object is only ever shared by the same (key,
\* attribute) slot, and what update_dict does to a slot depends on that slot
\* and on the attribute names of the two Records alone; the dictionary parser,
\* whose dataset holds one list under two keys, passes update_dict one key
\* and one attribute at a time.  The names are those of the input datasets
\* and the prefixed headers of the sources modelled.
AttrSeq ==
    <<"a", "b",
      "SUBTLEX-word", "SUBTLEX-length", "SUBTLEX-pinyin",
      "SUBTLEX-pinyin.input", "SUBTLEX-wcount", "SUBTLEX-w.million",
      "SUBTLEX-log10w", "SUBTLEX-w-cd", "SUBTLEX-w-cd%", "SUBTLEX-log10cd",
      "SUBTLEX-dominant.pos", "SUBTLEX-dominant.pos.freq", "SUBTLEX-all.pos",
      "SUBTLEX-all.pos.freq", "SUBTLEX-english", "SUBTLEX-number",
      "LWC-word-id", "LWC-word", "LWC-reverse-of-word", "LWC-count",
      "LWC-number",
      "HSK-word", "HSK-level",
      "JUNDA-CL-number", "JUNDA-CL-character", "JUNDA-CL-count",
      "JUNDA-CL-percentile", "JUNDA-CL-pinyin", "JUNDA-CL-definition",
      "CEDICT-entry",
      "UNIHAN-kMandarin", "UNIHAN-kSimplifiedVariant">>
KeySeq == <<"k1", "k2", "abc", "", "\\u4e00", "\\u4e8c">>
ObjSeq == <<"A", "B">>

\* a value as Python's == sees it: a string, or the items of a list
V(s) == [isList |-> FALSE, s |-> s, items |-> <<>>]
L(q) == [isList |-> TRUE, s |-> "", items |-> q]

\* a value as stored: a string, or a reference to a list object
Str(s) == [isList |-> FALSE, s |-> s, ref |-> 0]
Ref(r) == [isList |-> TRUE, s |-> "", ref |-> r]

\* {}
EmptyDict == [x \in {} |-> 0]

\* m[k] = v
Put(m, k, v) == [x \in DOMAIN m \cup {k} |-> IF x = k THEN v ELSE m[x]]

\* m.update(n)
DictUpdate(m, n) ==
    [x \in DOMAIN m \cup DOMAIN n |-> IF x \in DOMAIN n THEN n[x] ELSE m[x]]

ViewVal(h, v) == IF v.isList THEN L(h[v.ref]) ELSE V(v.s)

\* the dataset m in heap h, as Python's == compares it
View(h, m) ==
    [k \in DOMAIN m |-> [a \in DOMAIN m[k] |-> ViewVal(h, m[k][a])]]

Range(q) == {q[i] : i \in 1..Len(q)}

\* the strings a value holds: the scalar itself, or the members of the list
Members(vv) == IF vv.isList THEN Range(vv.items) ELSE {vv.s}

---------------------------------------------------------------------------
(* utils.update_dict *)

\* line 51: `key not in d and annotate is True`
SkipKeyAlways(d, key, annotate) == FALSE
SkipKey(d, key, annotate) == key \notin DOMAIN d /\ annotate

\* line 54: overlap of the attribute names of d[key] and value
OverlapNever(rec, value) == FALSE
Overlap(rec, value) == (DOMAIN rec \cap DOMAIN value) # {}

\* lines 56-57: d[key].update(value); the values of `value`, list references
\* included, are stored as they are
ReplaceRecord(rec, value) == value
MergeDisjoint(rec, value) == DictUpdate(rec, value)

\* `v in dvalue` for a list dvalue: some item equals v.  The items are
\* strings, and a list v never equals a string.
InList(h, dvalue, v) ==
    /\ ~v.isList
    /\ \E i \in 1..Len(h[dvalue.ref]) : h[dvalue.ref][i] = v.s

\* lines 66-67: (isinstance(dvalue, list) and v in dvalue) or
\*              (isinstance(dvalue, str) and v == dvalue)
IsHeldScalarOnly(h, dvalue, v) ==
    ~dvalue.isList /\ ~v.isList /\ v.s = dvalue.s
IsHeld(h, dvalue, v) ==
    \/ dvalue.isList /\ InList(h, dvalue, v)
    \/ ~dvalue.isList /\ ~v.isList /\ v.s = dvalue.s

\* lines 66-69: the incoming value is dropped
DropIgnoringFlag(h, dvalue, v, allow_duplicates) == IsHeld(h, dvalue, v)
DropIncoming(h, dvalue, v, allow_duplicates) ==
    IsHeld(h, dvalue, v) /\ ~allow_duplicates

\* lines 72-75: d[key][k].extend(v) for a list v, d[key][k].append(v) otherwise
PrependValue(h, items, v) ==
    IF v.isList THEN h[v.ref] \o items ELSE <<v.s>> \o items
AppendValue(h, items, v) ==
    IF v.isList THEN items \o h[v.ref] ELSE Append(items, v.s)

\* lines 61-75: for k, v in value.items()
RECURSIVE MergeAttrs(_, _, _, _, _)
MergeAttrs(h, rec, value, allow_duplicates, i) ==
    IF i > Len(AttrSeq) THEN [heap |-> h, rec |-> rec]
    ELSE LET k == AttrSeq[i] IN
      IF k \notin DOMAIN value
      THEN MergeAttrs(h, rec, value, allow_duplicates, i + 1)
      ELSE LET v == value[k] IN
        IF k \notin DOMAIN rec
        THEN MergeAttrs(h, Put(rec, k, v), value, allow_duplicates, i + 1)
        ELSE LET dvalue == rec[k] IN
          IF DropIncoming(h, dvalue, v, allow_duplicates)
          THEN MergeAttrs(h, rec, value, allow_duplicates, i + 1)
          ELSE LET \* line 71: d[key][k] = [dvalue], a new list object
                   h1 == IF dvalue.isList THEN h
                         ELSE Append(h, <<dvalue.s>>)
                   rec1 == IF dvalue.isList THEN rec
                           ELSE Put(rec, k, Ref(Len(h1)))
                   r == rec1[k].ref
                   h2 == [h1 EXCEPT ![r] = AppendValue(h1, @, v)]
               IN MergeAttrs(h2, rec1, value, allow_duplicates, i + 1)

\* lines 51-75: the body of `for key, value in other.items()`
MergeKey(h, d, key, value, allow_duplicates, annotate) ==
    IF SkipKey(d, key, annotate) THEN [heap |-> h, d |-> d]
    ELSE LET \* line 53: d.setdefault(key, {})
             rec == IF key \in DOMAIN d THEN d[key] ELSE EmptyDict
         IN IF ~Overlap(rec, value)
            THEN [heap |-> h, d |-> Put(d, key, MergeDisjoint(rec, value))]
            ELSE LET m == MergeAttrs(h, rec, value, allow_duplicates, 1)
                 IN [heap |-> m.heap, d |-> Put(d, key, m.rec)]

\* line 50: for key, value in other.items()
RECURSIVE MergeKeys(_, _, _, _, _, _)
MergeKeys(h, d, other, allow_duplicates, annotate, i) ==
    IF i > Len(KeySeq) THEN [heap |-> h, d |-> d]
    ELSE IF KeySeq[i] \notin DOMAIN other
    THEN MergeKeys(h, d, other, allow_duplicates, annotate, i + 1)
    ELSE LET m == MergeKey(h, d, KeySeq[i], other[KeySeq[i]],
                           allow_duplicates, annotate)
         IN MergeKeys(m.heap, m.d, other, allow_duplicates, annotate, i + 1)

\* update_dict(d, other, allow_duplicates, annotate) run in heap h: the heap
\* and d as the call leaves them
update_dict(h, d, other, allow_duplicates, annotate) ==
    MergeKeys(h, d, other, allow_duplicates, annotate, 1)

---------------------------------------------------------------------------
(* data.mash *)

\* the objects handed to mash: "A" is a BaseSource whose data is src["A"],
\* "B" is the dict src["B"], "N" is an object that is neither
ArgObjs == {"A", "B", "N"}

\* line 25: isinstance(arg, dict) or isinstance(arg, BaseSource)
IsDataset(arg) == arg \in Objs

\* line 33: annotate=False if first_mash else annotate
AnnotateAlways(first_mash, annotate) == annotate
MashAnnotate(first_mash, annotate) == IF first_mash THEN FALSE ELSE annotate

\* lines 30-34: for arg in args: update_dict(mashed, arg, annotate=...)
RECURSIVE MashLoop(_, _, _, _, _, _)
MashLoop(h, s, mashed, args, annotate, i) ==
    IF i > Len(args) THEN [heap |-> h, d |-> mashed]
    ELSE LET m == update_dict(h, mashed, s[args[i]], FALSE,
                              MashAnnotate(i = 1, annotate))
         IN MashLoop(m.heap, s, m.d, args, annotate, i + 1)

\* what a call hands back
Returned(val) == [kind |-> "return", exc |-> "none", val |-> val]
ReturnedExc(e) == [kind |-> "return", exc |-> e, val |-> EmptyDict]
Raised(e) == [kind |-> "raise", exc |-> e, val |-> EmptyDict]
NoOutcome == [kind |-> "none", exc |-> "none", val |-> EmptyDict]

\* mash with the type check of lines 24-26 made inside the merge loop: the
\* arguments before the first non-dataset are merged before TypeError is raised
mashCheckingInLoop(h, s, args, annotate) ==
    IF Len(args) < 2
    THEN [heap |-> h, out |-> ReturnedExc("ValueError")]
    ELSE IF \E i \in 1..Len(args) : ~IsDataset(args[i])
    THEN LET bad == CHOOSE i \in 1..Len(args) :
                        /\ ~IsDataset(args[i])
                        /\ \A j \in 1..(i - 1) : IsDataset(args[j])
             m == MashLoop(h, s, EmptyDict, SubSeq(args, 1, bad - 1),
                           annotate, 1)
         IN [heap |-> m.heap, out |-> Raised("TypeError")]
    ELSE LET m == MashLoop(h, s, EmptyDict, args, annotate, 1)
         IN [heap |-> m.heap, out |-> Returned(m.d)]

\* mash(args..., annotate=annotate) run in heap h over the datasets s
mash(h, s, args, annotate) ==
    IF Len(args) < 2
    THEN \* lines 22-23: return ValueError(...)
         [heap |-> h, out |-> ReturnedExc("ValueError")]
    ELSE IF \E i \in 1..Len(args) : ~IsDataset(args[i])
    THEN \* lines 24-26
         [heap |-> h, out |-> Raised("TypeError")]
    ELSE LET m == MashLoop(h, s, EmptyDict, args, annotate, 1)
         IN [heap |-> m.heap, out |-> Returned(m.d)]

---------------------------------------------------------------------------
(* sources: the frequency-ranked parsers, SUBTLEX and LWCWords *)

\* str(n) for a natural number n
Digit == <<"0", "1", "2", "3", "4", "5", "6", "7", "8", "9">>
RECURSIVE StrOf(_)
StrOf(n) ==
    IF n < 10 THEN Digit[n + 1]
    ELSE StrOf(n \div 10) \o Digit[(n % 10) + 1]

\* the count strings of the input files
Counts == {"9", "10", "20", "30"}

\* int(s) for a count string s
IntOf(s) == CHOOSE n \in 0..99 : StrOf(n) = s

\* the words of the input files: two written with Chinese characters, one
\* written in Latin letters only
Words == {"k1", "k2", "abc"}

\* zhon.hanzi.cjk_ideographs occurs in w
HasCJK(w) == w \in {"k1", "k2"}

\* s[0] for the fields that occur: the header line of SUBTLEX-CH starts with
\* "Word", a comment line of the LWC file is "#c"; the remaining first fields
\* are words or one-digit ids
FirstChar(s) ==
    IF s = "Word" THEN "W"
    ELSE IF s = "#c" THEN "#"
    ELSE IF s \in {"k1", "k2"} THEN "k"
    ELSE IF s = "abc" THEN "a"
    ELSE s

\* a line of the input file: a data line with its word and count, or a
\* header / comment line
Lines ==
    {[t |-> "row", word |-> w, count |-> c] : w \in Words, c \in Counts}
    \cup {[t |-> "comment", word |-> "", count |-> ""]}

\* the row csv.reader yields for the i-th line of a file of class desc; the
\* columns that are neither the word nor the count hold the same text on
\* every line, except the word-id of LWC, which is the line number
RowOf(desc, line, i) ==
    IF desc.name = "LWC"
    THEN IF line.t = "comment" THEN <<"#c">>
         ELSE <<StrOf(i), line.word, "r", line.count>>
    ELSE IF line.t = "comment"
    THEN [j \in 1..Len(desc.headers) |-> IF j = 1 THEN "Word" ELSE "h"]
    ELSE [j \in 1..Len(desc.headers) |->
             IF j = desc.index_column + 1 THEN line.word
             ELSE IF j = desc.count_column + 1 THEN line.count
             ELSE "f"]

\* process_row, CSVMixin 440-444, SUBTLEX 652-656, LWCWords 1089-1096
Rejected(desc, row) ==
    \/ FirstChar(row[1]) \in desc.comments
    \/ desc.cjk_only /\ ~HasCJK(row[2])

\* utils.trim_list, lines 25-27: the items of q at the (zero-based) indices
\* not in excluded, from index i on
RECURSIVE TrimFrom(_, _, _)
TrimFrom(q, excluded, i) ==
    IF i >= Len(q) THEN <<>>
    ELSE IF i \in excluded THEN TrimFrom(q, excluded, i + 1)
    ELSE <<q[i + 1]>> \o TrimFrom(q, excluded, i + 1)
KeepAll(q, excluded) == q
trim_list(q, excluded) == TrimFrom(q, excluded, 0)

\* the sort key of lines 621 and 1068: int(x[count_column])
SortKey(desc, row) == IntOf(row[desc.count_column + 1])

\* list.sort(key=..., reverse=True) is stable: a row is placed after the rows
\* already placed whose key is greater than or equal to its own
PlacedAfterGreaterOnly(kx, ky) == ky > kx
PlacedAfter(kx, ky) == ky >= kx

\* prows.sort(key=lambda x: int(x[count_column]), reverse=True), rows[i..]
\* being inserted one by one into sorted
RECURSIVE SortFrom(_, _, _, _)
SortFrom(desc, rows, sorted, i) ==
    IF i > Len(rows) THEN sorted
    ELSE LET x == rows[i]
             n == Cardinality({j \in 1..Len(sorted) :
                     PlacedAfter(SortKey(desc, x), SortKey(desc, sorted[j]))})
         IN SortFrom(desc, rows,
                     SubSeq(sorted, 1, n) \o <<x>>
                         \o SubSeq(sorted, n + 1, Len(sorted)),
                     i + 1)

\* dict(zip([self.key_prefix + h for h in headers], trow))
Zip(desc, headers, trow) ==
    LET n == IF Len(headers) < Len(trow) THEN Len(headers) ELSE Len(trow)
    IN [a \in {desc.name \o "-" \o headers[j] : j \in 1..n} |->
           Str(trow[CHOOSE j \in 1..n : desc.name \o "-" \o headers[j] = a])]

\* enumerate(prows, start=1): the number that goes with the n-th row
RowNumberFromZero(n) == n - 1
RowNumber(n) == n

\* lines 622-632 and 1069-1079: the loop over enumerate(prows, start=1)
RECURSIVE BuildFrom(_, _, _, _, _, _)
BuildFrom(desc, prows, headers, h, data, n) ==
    IF n > Len(prows) THEN [heap |-> h, d |-> data]
    ELSE LET excluded_columns == desc.exclude \cup {desc.index_column}
             key == prows[n][desc.index_column + 1]
             trow == trim_list(prows[n], excluded_columns)
                         \o <<StrOf(RowNumber(n))>>
             value == Zip(desc, headers, trow)
             m == update_dict(h, data, [k \in {key} |-> value], FALSE, FALSE)
         IN BuildFrom(desc, prows, headers, m.heap, m.d, n + 1)

\* the rows process_row accepts, in file order (lines 611-618, 1058-1065)
Accepted(desc, rows) == SelectSeq(rows, LAMBDA r : ~Rejected(desc, r))

\* int(s) succeeds: s is the decimal writing of a number
IsNumeric(s) == \E n \in 0..99 : StrOf(n) = s

\* the exception process_row raises on a row, "none" if it returns: row[0][0]
\* (lines 442, 654, 1091) needs a first field with a first character, and
\* the test of line 1093 reads row[1] of a row that is not a comment
RowError(desc, row) ==
    IF Len(row) = 0 THEN "IndexError"
    ELSE IF row[1] = "" THEN "IndexError"
    ELSE IF FirstChar(row[1]) \in desc.comments THEN "none"
    ELSE IF desc.cjk_only /\ Len(row) < 2 THEN "IndexError"
    ELSE "none"

\* the exception the sort key int(x[count_column]) raises on a row
SortKeyError(desc, row) ==
    IF Len(row) <= desc.count_column THEN "IndexError"
    ELSE IF ~IsNumeric(row[desc.count_column + 1]) THEN "ValueError"
    ELSE "none"

\* the first exception f raises over the items of q, "none" if it raises on
\* none of them
FirstError(q, f(_)) ==
    LET bad == {j \in 1..Len(q) : f(q[j]) # "none"}
    IN IF bad = {} THEN "none"
       ELSE f(q[CHOOSE j \in bad : \A l \in bad : j <= l])

\* SUBTLEX.process_file, lines 594-632, and LWCWords.process_file, lines
\* 1041-1079: the sorted rows and the dataset built from them, or the
\* exception that ends the call; process_row runs on the rows up to the one
\* it raises on, the sort key on every accepted row
process_file(desc, rows) ==
    LET excluded_columns == desc.exclude \cup {desc.index_column}
        rowExc == FirstError(rows, LAMBDA r : RowError(desc, r))
        accepted == Accepted(desc, rows)
        keyExc == FirstError(accepted, LAMBDA r : SortKeyError(desc, r))
        prows == SortFrom(desc, accepted, <<>>, 1)
        headers == trim_list(desc.headers, excluded_columns) \o <<"number">>
        m == BuildFrom(desc, prows, headers, <<>>, EmptyDict, 1)
    IN IF rowExc # "none"
       THEN [out |-> rowExc, prows |-> <<>>, data |-> EmptyDict]
       ELSE IF keyExc # "none"
       THEN [out |-> keyExc, prows |-> <<>>, data |-> EmptyDict]
       ELSE [out |-> "none", prows |-> prows, data |-> View(m.heap, m.d)]

\* the parser before it has run on the rows of a file
NotRun(desc, rows) ==
    [desc |-> desc, rows |-> rows, ran |-> FALSE, out |-> "none",
     prows |-> <<>>, data |-> EmptyDict]

\* no file is being parsed
IdleParser == pf = NotRun([name |-> "none"], <<>>)

---------------------------------------------------------------------------
(* sources: BaseSource, BaseRemoteSource, BaseRemoteArchiveSource *)

\* the kinds of source class: one reading files that ship with the package
\* (BaseSource.read as it stands), one downloading a single file
\* (BaseRemoteSource), one downloading an archive (BaseRemoteArchiveSource)
Kinds == {"local", "plain", "archive"}

\* what process_file makes of a file's contents: "bad" contents make
\* read_file or process_file raise, the others parse to a dataset
Contents == {"none", "x", "xy", "bad"}

\* the dataset process_file returns
Parsed(c) ==
    IF c = "x" THEN [k \in {"k1"} |-> [a \in {"a"} |-> V("x")]]
    ELSE IF c = "xy" THEN [k \in {"k1"} |-> [a \in {"a"} |-> L(<<"x", "y">>)]]
    ELSE EmptyDict

\* a file of the site: whether its name is in the class's whitelist, and its
\* contents
SiteFiles == [named : BOOLEAN, content : Contents]

\* a path: the directory (0: the package's own directory) and which file it is
\* (0: the downloaded archive itself, i > 0: the i-th file of the site);
\* corrupt: the archive at this path cannot be unpacked
Path(dir, ix, corrupt) == [dir |-> dir, ix |-> ix, corrupt |-> corrupt]

\* self.files: None, or a tuple of paths
NoneFiles == [some |-> FALSE, paths |-> <<>>]
Tuple(q) == [some |-> TRUE, paths |-> q]

\* the cache entry of the source as persisted, and the dataset parsed by the
\* last read() that ran to its end with caching on (forgotten when the entry
\* is deleted)
NoEntry == [present |-> FALSE, val |-> EmptyDict]
Entry(val) == [present |-> TRUE, val |-> val]
NotDone == [ok |-> FALSE, data |-> EmptyDict]

\* what a method did besides changing the instance
NoIO == [fetched |-> FALSE, extracted |-> FALSE, madeDir |-> FALSE,
         parsed |-> FALSE]

\* the result of a method: the instance and environment it leaves, whether it
\* returned or raised, and what it did
Res(i, e, o, io) == [inst |-> i, env |-> e, out |-> o, io |-> io]
Ret == [kind |-> "return", exc |-> "none"]
Exc(x) == [kind |-> "raise", exc |-> x]

\* a dataset given by value, built from fresh list objects in heap h
Alloc(h, dv) ==
    LET slots == {t \in Keys \X Attrs :
                     /\ t[1] \in DOMAIN dv
                     /\ t[2] \in DOMAIN dv[t[1]]
                     /\ dv[t[1]][t[2]].isList}
        Ix(q, x) == CHOOSE n \in 1..Len(q) : q[n] = x
        Pos(t) == (Ix(KeySeq, t[1]) - 1) * Len(AttrSeq) + Ix(AttrSeq, t[2])
        Rank(t) == Cardinality({u \in slots : Pos(u) <= Pos(t)})
        new == [r \in 1..Cardinality(slots) |->
                   LET t == CHOOSE t \in slots : Rank(t) = r
                   IN dv[t[1]][t[2]].items]
    IN [heap |-> h \o new,
        d |-> [k \in DOMAIN dv |->
                  [a \in DOMAIN dv[k] |->
                      IF dv[k][a].isList THEN Ref(Len(h) + Rank(<<k, a>>))
                      ELSE Str(dv[k][a].s)]]]

\* line 84: update_dict(self.data, data), data being the dict process_file
\* has just built; nothing else refers to the lists of either dict
MergeView(dv, ov) ==
    LET a == Alloc(<<>>, dv)
        b == Alloc(a.heap, ov)
        m == update_dict(b.heap, a.d, b.d, FALSE, FALSE)
    IN View(m.heap, m.d)

\* the contents of the file at path p: a downloaded archive is not text
ContentOf(st, p) == IF p.ix = 0 THEN "bad" ELSE st.files[p.ix].content

\* lines 365-367: read_file of an archive source returns None for a file
\* whose name is not in a non-empty whitelist
Ignored(st, p) ==
    /\ st.kind = "archive" /\ st.whitelist
    /\ (p.ix = 0 \/ ~st.files[p.ix].named)

\* lines 80-84: the loop of BaseSource.read over paths[i..], merging each
\* file's dataset into data as soon as it is processed
RECURSIVE ReadFiles(_, _, _, _)
ReadFiles(st, data, paths, i) ==
    IF i > Len(paths) THEN [data |-> data, failed |-> FALSE]
    ELSE IF Ignored(st, paths[i]) THEN ReadFiles(st, data, paths, i + 1)
    ELSE IF ContentOf(st, paths[i]) = "bad"
    THEN [data |-> data, failed |-> TRUE]
    ELSE ReadFiles(st, MergeView(data, Parsed(ContentOf(st, paths[i]))),
                   paths, i + 1)

\* BaseSource.read, lines 71-84.  A failing file raises out of the loop
\* ("FileError": whatever open, decode or process_file raised).
BaseSource_read(st, i, e) ==
    IF ~i.files.some
    THEN Res(i, e, Exc("TypeError"), NoIO)
    ELSE LET r == ReadFiles(st, i.data, i.files.paths, 1)
             io == [NoIO EXCEPT !.parsed = i.files.paths # <<>>]
         IN Res([i EXCEPT !.data = r.data], e,
                IF r.failed THEN Exc("FileError") ELSE Ret, io)

\* lines 200-203: bool(self.data)
HasData(i) == i.data # EmptyDict

\* lines 205-214: bool(self.files)
HasFilesAlways(i) == TRUE
HasFiles(i) == i.files.some /\ i.files.paths # <<>>

\* _reset_cache, lines 193-198.  An instance built with cache_data=False has
\* no attribute `cache`: line 196 raises after line 195 has deleted `data`.
reset_cache(i, e) ==
    LET i1 == [i EXCEPT !.hasData = FALSE, !.data = EmptyDict]
    IN IF ~i.cache_data THEN Res(i1, e, Exc("AttributeError"), NoIO)
       ELSE IF ~e.store.present THEN Res(i1, e, Exc("SortKeyError"), NoIO)
       ELSE Res([i1 EXCEPT !.hasData = TRUE],
                [e EXCEPT !.store = Entry(EmptyDict), !.done = NotDone],
                Ret, NoIO)

\* BaseRemoteSource.download, lines 216-251.  net: what the network does if
\* asked ("ok", "fetch_fails": urlopen raises, "corrupt": the file arrives
\* but is not a readable archive).
BaseRemoteSource_download(st, i, e, force_download, net) ==
    IF ~i.hasData THEN Res(i, e, Exc("AttributeError"), NoIO)
    ELSE IF HasData(i) /\ ~force_download THEN Res(i, e, Ret, NoIO)
    ELSE IF HasFiles(i) /\ ~force_download THEN Res(i, e, Ret, NoIO)
    ELSE LET rc == IF force_download THEN reset_cache(i, e)
                   ELSE Res(i, e, Ret, NoIO)
         IN IF rc.out.kind = "raise" THEN rc
            ELSE LET dir == rc.env.made + 1
                     i1 == [rc.inst EXCEPT !.temp_dir = dir]
                     e1 == [rc.env EXCEPT !.made = dir,
                                          !.dirs = @ \cup {dir}]
                     io == [NoIO EXCEPT !.madeDir = TRUE, !.fetched = TRUE]
                 IN IF net = "fetch_fails"
                    THEN Res(i1, e1, Exc("URLError"), io)
                    ELSE Res([i1 EXCEPT !.files =
                                 Tuple(<<Path(dir,
                                              IF st.kind = "archive"
                                              THEN 0 ELSE 1,
                                              st.kind = "archive"
                                                  /\ net = "corrupt")>>)],
                             e1, Ret, io)

\* unpack_archive(filename, extract_dir) of dragonmasher/unpack.py: raises
\* ReadError unless filename is a readable archive
Unpackable(p) == p.ix = 0 /\ ~p.corrupt

\* BaseRemoteArchiveSource.extract, lines 338-353
extract(st, i, e, io) ==
    IF ~HasFiles(i) THEN Res(i, e, Exc("OSError"), io)
    ELSE IF ~Unpackable(i.files.paths[1])
    THEN Res(i, e, Exc("ReadError"), [io EXCEPT !.extracted = TRUE])
    ELSE Res([i EXCEPT !.files =
                 Tuple([n \in 1..Len(st.files) |->
                           Path(i.temp_dir, n, FALSE)])],
             e, Ret, [io EXCEPT !.extracted = TRUE])

\* line 334: `self.has_data and not force_download`
ExtractAlways(i, force_download) == FALSE
ExtractSkipped(i, force_download) == HasData(i) /\ ~force_download

\* BaseRemoteArchiveSource.download, lines 311-336
BaseRemoteArchiveSource_download(st, i, e, force_download, net) ==
    LET r == BaseRemoteSource_download(st, i, e, force_download, net)
    IN IF r.out.kind = "raise" THEN r
       ELSE IF ExtractSkipped(r.inst, force_download) THEN r
       ELSE extract(st, r.inst, r.env, r.io)

\* download of a source of the site's kind
download(st, i, e, force_download, net) ==
    IF st.kind = "archive"
    THEN BaseRemoteArchiveSource_download(st, i, e, force_download, net)
    ELSE BaseRemoteSource_download(st, i, e, force_download, net)

\* _cleanup, lines 296-301: shutil.rmtree(None) raises TypeError
cleanup(i, e, io) ==
    IF i.temp_dir = 0 THEN Res(i, e, Exc("TypeError"), io)
    ELSE Res([i EXCEPT !.temp_dir = 0, !.files = NoneFiles],
             [e EXCEPT !.dirs = @ \ {i.temp_dir}], Ret, io)

\* BaseRemoteSource.read, lines 261-281
BaseRemoteSource_read(st, i, e) ==
    IF ~i.hasData THEN Res(i, e, Exc("AttributeError"), NoIO)
    ELSE IF HasData(i) THEN Res(i, e, Ret, NoIO)
    ELSE IF ~HasFiles(i) THEN Res(i, e, Exc("OSError"), NoIO)
    ELSE LET r == BaseSource_read(st, i, e)
         IN IF r.out.kind = "raise" THEN r
            ELSE LET e1 == IF i.cache_data
                           THEN [e EXCEPT !.store = Entry(r.inst.data),
                                          !.done = [ok |-> TRUE,
                                                    data |-> r.inst.data]]
                           ELSE e
                 IN cleanup(r.inst, e1, r.io)

\* read of a source of the site's kind
read(st, i, e) ==
    IF st.kind = "local" THEN BaseSource_read(st, i, e)
    ELSE BaseRemoteSource_read(st, i, e)

\* the constructor, lines 45-64 and 153-191, run in environment e: for a
\* local source the class's own files, for a remote source no files and, with
\* cache_data, the dataset of the cache entry (created empty if missing)
construct(st, e, cache_data) ==
    IF st.kind = "local"
    THEN Res([cache_data |-> FALSE, hasData |-> TRUE, data |-> EmptyDict,
              files |-> Tuple([n \in 1..Len(st.files) |-> Path(0, n, FALSE)]),
              temp_dir |-> 0],
             e, Ret, NoIO)
    ELSE Res([cache_data |-> cache_data, hasData |-> TRUE,
              data |-> IF cache_data THEN e.store.val ELSE EmptyDict,
              files |-> NoneFiles, temp_dir |-> 0],
             IF cache_data /\ ~e.store.present
             THEN [e EXCEPT !.store = Entry(EmptyDict)] ELSE e,
             Ret, NoIO)

\* what happens to an instance that is dropped: a cache opened with
\* writeback writes its entry back when it is closed, and whether the shelf
\* of a dropped instance is closed before the next one opens the cache is up
\* to the garbage collector
Dropped(i, e, closed) ==
    IF closed /\ i.cache_data /\ i.hasData /\ e.store.present
    THEN [e EXCEPT !.store = Entry(i.data)]
    ELSE e

\* no cache entry, no temporary directory made yet
NewEnv == [store |-> NoEntry, done |-> NotDone, dirs |-> {}, made |-> 0]

NoOp(i, e) ==
    [op |-> "none", force |-> FALSE, net |-> "ok", out |-> Ret, io |-> NoIO,
     inst |-> i, env |-> e, bornDone |-> FALSE, since |-> 0,
     born |-> e.made, afterRead |-> FALSE]

\* the source variables while datasets are merged
IdleSite == [kind |-> "local", whitelist |-> FALSE,
             files |-> <<[named |-> TRUE, content |-> "none"]>>]
IdleSource ==
    /\ site = IdleSite
    /\ inst = construct(IdleSite, NewEnv, FALSE).inst
    /\ env = NewEnv
    /\ last = NoOp(construct(IdleSite, NewEnv, FALSE).inst, NewEnv)
    /\ ops = 0

---------------------------------------------------------------------------
(* Inputs *)

\* the values a (key, attribute) slot of an input dataset may hold
InitVals(k, a) ==
    IF k = "k1" /\ a = "a"
    THEN {V("x"), V("y"), L(<<"x">>), L(<<"x", "y">>)}
    ELSE IF k = "k1" THEN {V("y"), L(<<"y">>)}
    ELSE IF a = "a" THEN {V("x"), L(<<"x", "y">>)}
    ELSE {}

AllInitVals == UNION {InitVals(k, a) : k \in Keys, a \in Attrs}

\* the Records an input dataset may hold under key k
InitRecords(k) ==
    UNION {{rec \in [T -> AllInitVals] : \A a \in T : rec[a] \in InitVals(k, a)}
           : T \in (SUBSET Attrs) \ {{}}}

AllInitRecords == UNION {InitRecords(k) : k \in Keys}

\* the input datasets, lists written inline
InitDatasets ==
    UNION {{m \in [K -> AllInitRecords] : \A k \in K : m[k] \in InitRecords(k)}
           : K \in SUBSET Keys}

\* the (object, key, attribute) slots, numbered in a fixed order
SlotIx(o, k, a) ==
    LET Ix(q, x) == CHOOSE i \in 1..Len(q) : q[i] = x
    IN ((Ix(ObjSeq, o) - 1) * Len(KeySeq) + (Ix(KeySeq, k) - 1)) * Len(AttrSeq)
       + Ix(AttrSeq, a)

ListSlots(abs) ==
    {<<o, k, a>> \in Objs \X Keys \X Attrs :
        /\ k \in DOMAIN abs[o]
        /\ a \in DOMAIN abs[o][k]
        /\ abs[o][k][a].isList}

\* every list of the inputs is a list object of its own
RefOf(abs, o, k, a) ==
    Cardinality({t \in ListSlots(abs) :
                    SlotIx(t[1], t[2], t[3]) <= SlotIx(o, k, a)})

InitHeap(abs) ==
    [r \in 1..Cardinality(ListSlots(abs)) |->
        LET t == CHOOSE t \in ListSlots(abs) : RefOf(abs, t[1], t[2], t[3]) = r
        IN abs[t[1]][t[2]][t[3]].items]

InitSrc(abs) ==
    [o \in Objs |->
        [k \in DOMAIN abs[o] |->
            [a \in DOMAIN abs[o][k] |->
                IF abs[o][k][a].isList THEN Ref(RefOf(abs, o, k, a))
                ELSE Str(abs[o][k][a].s)]]]

NoCall == [op |-> "none", d |-> "none", other |-> "none", args |-> <<>>,
           allow_duplicates |-> FALSE, annotate |-> FALSE]

Init ==
    \E abs \in [Objs -> InitDatasets] :
        /\ heap = InitHeap(abs)
        /\ src = InitSrc(abs)
        /\ out = NoOutcome
        /\ call = NoCall
        /\ pre = [heap |-> InitHeap(abs), src |-> InitSrc(abs)]
        /\ calls = 0
        /\ IdleSource
        /\ IdleParser

---------------------------------------------------------------------------
(* Calls *)

\* update_dict(src[d], src[other], allow_duplicates, annotate)
UpdateDictCall(d, other, allow_duplicates, annotate) ==
    /\ calls < MaxCalls
    /\ d # other
    /\ LET m == update_dict(heap, src[d], src[other], allow_duplicates, annotate)
       IN /\ heap' = m.heap
          /\ src' = [src EXCEPT ![d] = m.d]
    /\ out' = NoOutcome
    /\ call' = [op |-> "update_dict", d |-> d, other |-> other, args |-> <<>>,
                allow_duplicates |-> allow_duplicates, annotate |-> annotate]
    /\ pre' = [heap |-> heap, src |-> src]
    /\ calls' = calls + 1
    /\ UNCHANGED <<sourceVars, pf>>

ArgLists == UNION {[1..n -> ArgObjs] : n \in 0..MaxArgs}

\* mash(args..., annotate=annotate) on the input datasets
MashCall(args, annotate) ==
    /\ calls = 0
    /\ LET m == mash(heap, src, args, annotate)
       IN /\ heap' = m.heap
          /\ out' = m.out
    /\ src' = src
    /\ call' = [op |-> "mash", d |-> "none", other |-> "none", args |-> args,
                allow_duplicates |-> FALSE, annotate |-> annotate]
    /\ pre' = [heap |-> heap, src |-> src]
    /\ calls' = calls + 1
    /\ UNCHANGED <<sourceVars, pf>>

Next ==
    \E d \in Objs, other \in Objs, allow_duplicates \in BOOLEAN,
       annotate \in BOOLEAN :
        UpdateDictCall(d, other, allow_duplicates, annotate)

NextMash ==
    \E args \in ArgLists, annotate \in BOOLEAN : MashCall(args, annotate)

\* a caller merging two datasets with update_dict
Spec == Init /\ [][Next]_vars

\* a caller mashing the input datasets
SpecMash == Init /\ [][NextMash]_vars

---------------------------------------------------------------------------
(* A source instance and its environment *)

FileSeqs(lo, hi, names) ==
    UNION {[1..n -> {f \in SiteFiles : f.named \in names}] : n \in lo..hi}

\* the source classes and what is behind them: a local source ships one or
\* more files, a plain remote source downloads one file, an archive holds
\* any number of files and its class may have a whitelist
Sites ==
    {[kind |-> "local", whitelist |-> FALSE, files |-> q] :
        q \in FileSeqs(1, MaxFiles, {TRUE})}
    \cup {[kind |-> "plain", whitelist |-> FALSE, files |-> q] :
        q \in FileSeqs(1, 1, {TRUE})}
    \cup {[kind |-> "archive", whitelist |-> FALSE, files |-> q] :
        q \in FileSeqs(0, MaxFiles, {TRUE})}
    \cup {[kind |-> "archive", whitelist |-> TRUE, files |-> q] :
        q \in FileSeqs(0, MaxFiles, BOOLEAN)}

\* the merge variables while a source is exercised
IdleMerge ==
    /\ heap = <<>>
    /\ src = [o \in Objs |-> EmptyDict]
    /\ out = NoOutcome
    /\ call = NoCall
    /\ pre = [heap |-> <<>>, src |-> [o \in Objs |-> EmptyDict]]
    /\ calls = 0

\* a first instance of a source class on a machine with an empty cache
InitSource ==
    /\ IdleMerge
    /\ \E st \in Sites, cache_data \in BOOLEAN :
        LET r == construct(st, NewEnv, cache_data)
        IN /\ st.kind = "local" => ~cache_data
           /\ site = st
           /\ inst = r.inst
           /\ env = r.env
           /\ last = NoOp(r.inst, r.env)
           /\ ops = 0
    /\ IdleParser

Nets == {"ok", "fetch_fails", "corrupt"}

\* what a method call leaves behind: the instance, the environment, and the
\* record of the call with the instance and environment it was made on;
\* afterRead tells that the call before it on the instance was a read() that
\* returned
Effect(op, force, net, r) ==
    /\ inst' = r.inst
    /\ env' = r.env
    /\ last' = [op |-> op, force |-> force, net |-> net, out |-> r.out,
                io |-> r.io, inst |-> inst, env |-> env,
                bornDone |-> last.bornDone, since |-> last.since + 1,
                born |-> last.born,
                afterRead |-> last.op = "read" /\ last.out = Ret]
    /\ ops' = ops + 1
    /\ UNCHANGED <<site, heap, src, out, call, pre, calls, pf>>

\* inst.download(force_download)
DownloadCall(force_download, net) ==
    /\ ops < MaxOps
    /\ site.kind # "local"
    /\ site.kind = "plain" => net # "corrupt"
    /\ Effect("download", force_download, net,
              download(site, inst, env, force_download, net))

\* inst.read()
ReadCall ==
    /\ ops < MaxOps
    /\ Effect("read", FALSE, "ok", read(site, inst, env))

\* inst = Source(cache_data=cache_data): the instance is replaced by a new one
NewInstance(cache_data, closed) ==
    /\ ops < MaxOps
    /\ site.kind = "local" => (~cache_data /\ ~closed)
    /\ LET e == Dropped(inst, env, closed)
           r == construct(site, e, cache_data)
       IN /\ inst' = r.inst
          /\ env' = r.env
          /\ last' = [op |-> "new", force |-> FALSE, net |-> "ok",
                      out |-> Ret, io |-> NoIO, inst |-> inst, env |-> env,
                      bornDone |-> cache_data /\ e.done.ok, since |-> 0,
                      born |-> e.made, afterRead |-> FALSE]
    /\ ops' = ops + 1
    /\ UNCHANGED <<site, heap, src, out, call, pre, calls, pf>>

NextSource ==
    \/ \E force_download \in BOOLEAN, net \in Nets :
           DownloadCall(force_download, net)
    \/ ReadCall
    \/ \E cache_data \in BOOLEAN, closed \in BOOLEAN :
           NewInstance(cache_data, closed)

\* a caller constructing instances of one source class and calling their
\* download and read methods
SpecSource == InitSource /\ [][NextSource]_vars

---------------------------------------------------------------------------
(* Parsing a frequency file *)

LineSeqs == UNION {[1..n -> Lines] : n \in 0..MaxRows}

\* a file of SUBTLEX-CH or of the LWC word list, not yet processed
InitParser ==
    /\ IdleMerge
    /\ IdleSource
    /\ \E desc \in {SUBTLEX, LWCWords}, lines \in LineSeqs :
        pf = NotRun(desc, [i \in 1..Len(lines) |-> RowOf(desc, lines[i], i)])

\* data = self.process_file(filename, contents)
ProcessFileCall ==
    /\ ~pf.ran
    /\ pf.desc \in {SUBTLEX, LWCWords}
    /\ LET r == process_file(pf.desc, pf.rows)
       IN pf' = [pf EXCEPT !.ran = TRUE, !.out = r.out, !.prows = r.prows,
                         !.data = r.data]
    /\ UNCHANGED <<mergeVars, sourceVars>>

NextParser == ProcessFileCall

\* a frequency-ranked parser run on one file
SpecParser == InitParser /\ [][NextParser]_vars

---------------------------------------------------------------------------
(* sources: the generic delimited-text parser, CSVMixin *)

\* the class attributes of HSK (sources.py 455-462, index_column of
\* CSVMixin) and the defaults of CSVMixin.process_file (line 402)
HSK ==
    [name |-> "HSK",
     headers |-> <<"word", "level">>,
     index_column |-> 0,
     exclude |-> {},
     comments |-> {"#"}]

\* the attributes of JunDaClassicalCharacterList (BaseJunDa, lines 683-697,
\* name 'CL' of line 774) and the arguments BaseJunDa.process_file passes to
\* CSVMixin.process_file (lines 744-748)
JunDa ==
    [name |-> "JUNDA-CL",
     headers |-> <<"number", "character", "count", "percentile", "pinyin",
                   "definition">>,
     index_column |-> 1,
     exclude |-> {4, 5},
     comments |-> {"/"}]

\* the heap and dataset a call of update_dict leaves, handed to the rest of
\* the loop
Then(m, rest(_, _)) == rest(m.heap, m.d)

\* what a parser returns, as a value
Returned_data(m) ==
    [out |-> m.out, prows |-> <<>>,
     data |-> IF m.out = "none" THEN View(m.heap, m.d) ELSE EmptyDict]

\* self.key_prefix + h, lines 66-69
key_prefix(desc) == desc.name \o "-"

\* the exception CSVMixin.process_row raises on a row, "none" if it returns
\* (lines 440-444): row[0][0] needs a first field with a first character
process_row_error(row) ==
    IF Len(row) = 0 THEN "IndexError"
    ELSE IF row[1] = "" THEN "IndexError"
    ELSE "none"

\* CSVMixin.process_row, lines 440-444: the row is a comment
IsComment(desc, row) == SubSeq(row[1], 1, 1) \in desc.comments

\* lines 424-432 of CSVMixin.process_file: the loop over rows[i..]; a raising
\* row ends the call
RECURSIVE CSVRows(_, _, _, _, _)
CSVRows(desc, rows, h, data, i) ==
    IF i > Len(rows) THEN [out |-> "none", heap |-> h, d |-> data]
    ELSE IF process_row_error(rows[i]) # "none"
    THEN [out |-> process_row_error(rows[i]), heap |-> h, d |-> data]
    ELSE IF IsComment(desc, rows[i])
    THEN CSVRows(desc, rows, h, data, i + 1)
    ELSE IF Len(rows[i]) <= desc.index_column
    THEN [out |-> "IndexError", heap |-> h, d |-> data]
    ELSE LET excluded_columns == desc.exclude \cup {desc.index_column}
             headers == trim_list(desc.headers, excluded_columns)
             key == rows[i][desc.index_column + 1]
             trow == trim_list(rows[i], excluded_columns)
             value == Zip(desc, headers, trow)
         IN Then(update_dict(h, data, [k \in {key} |-> value], FALSE, FALSE),
                 LAMBDA h1, d1 : CSVRows(desc, rows, h1, d1, i + 1))

\* CSVMixin.process_file, lines 402-433: the dataset returned, or the
\* exception that ends the call
CSVMixin_process_file(desc, rows) ==
    Returned_data(CSVRows(desc, rows, <<>>, EmptyDict, 1))

---------------------------------------------------------------------------
(* sources: the dictionary parser, CEDICT *)

\* the class attributes of CEDICT, lines 906-913, and the comments argument
\* of line 943
CEDICT ==
    [name |-> "CEDICT",
     headers |-> <<"traditional", "simplified", "pinyin", "definition">>,
     index_column |-> 0,
     exclude |-> {},
     comments |-> {"#"}]

\* s[i] and s[i:i+len(t)] == t for a string s, counting from one
Char(s, i) == SubSeq(s, i, i)
At(s, i, t) == i + Len(t) - 1 <= Len(s) /\ SubSeq(s, i, i + Len(t) - 1) = t

\* the ways the pattern of line 958, (.+) (.+) \[(.+)\] /(.+)/, matches the
\* whole of a line: a is the position of the blank after t, b that of the
\* " [" after s, c that of the "] /" after p; every group is non-empty
Matches(line) ==
    LET n == Len(line)
        As == {a \in 2..n : At(line, a, " ")}
        Bs == {b \in 4..n : At(line, b, " [")}
        Cs == {c \in 7..n : At(line, c, "] /")}
    IN IF n = 0 \/ Char(line, n) # "/" THEN {}
       ELSE {m \in As \X Bs \X Cs :
                /\ m[1] + 2 <= m[2]
                /\ m[2] + 3 <= m[3]
                /\ m[3] + 4 <= n}

\* the groups are greedy: t is as long as a match allows, then s, then p
Greedy(ms) ==
    LET a == CHOOSE x \in {m[1] : m \in ms} : \A m \in ms : m[1] <= x
        bs == {m \in ms : m[1] = a}
        b == CHOOSE x \in {m[2] : m \in bs} : \A m \in bs : m[2] <= x
        cs == {m \in bs : m[2] = b}
        c == CHOOSE x \in {m[3] : m \in cs} : \A m \in cs : m[3] <= x
    IN <<a, b, c>>

\* CEDICT.get_rows, lines 956-965: the fields of a line that matches, the
\* line itself as the only field of one that does not
CEDICT_get_row(line) ==
    IF Matches(line) = {} THEN <<line>>
    ELSE LET m == Greedy(Matches(line))
         IN <<SubSeq(line, 1, m[1] - 1),
              SubSeq(line, m[1] + 1, m[2] - 1),
              SubSeq(line, m[2] + 2, m[3] - 1),
              SubSeq(line, m[3] + 3, Len(line) - 1)>>

\* str.replace(old, new) on s
RECURSIVE Replace(_, _, _)
Replace(s, old, new) ==
    IF s = "" THEN ""
    ELSE IF At(s, 1, old)
    THEN new \o Replace(SubSeq(s, Len(old) + 1, Len(s)), old, new)
    ELSE Char(s, 1) \o Replace(SubSeq(s, 2, Len(s)), old, new)

\* str.split(sep) on s, sep one character
RECURSIVE Split(_, _)
Split(s, sep) ==
    LET at == {i \in 1..Len(s) : Char(s, i) = sep}
    IN IF at = {} THEN <<s>>
       ELSE LET i == CHOOSE x \in at : \A y \in at : x <= y
            IN <<SubSeq(s, 1, i - 1)>> \o Split(SubSeq(s, i + 1, Len(s)), sep)

\* dragonmapper's transcriptions.numbered_to_accented on the readings of the
\* input lines: the tone number of a syllable becomes a tone mark on its
\* vowel, written here as the escape of the marked letter
numbered_to_accented(p) ==
    IF p = "xue2" THEN "xu\\u00e9"
    ELSE IF p = "yi1" THEN "y\\u012b"
    ELSE IF p = "lv4se4" THEN "l\\u01dcs\\u00e8"
    ELSE p

\* lines 971-976 of CEDICT.process_row: "u:" is written "v", and the blanks
\* between the syllables of a reading are removed (every reading of the
\* input lines is a run of numbered syllables, which pinyin_re matches whole)
Reading(p) == numbered_to_accented(Replace(Replace(p, "u:", "v"), " ", ""))

\* CEDICT.process_row, lines 967-987, on a row of four fields that is no
\* comment: the entry.  No definition of the input lines holds a reading in
\* brackets, so lines 978-985 leave row[3] as it is.
CEDICT_process_row(row) ==
    <<row[1], row[2], Reading(row[3]), Split(row[4], "/")>>

\* the entry is added under its second headword as well (lines 950-952)
FirstHeadwordOnly(prow) == FALSE
BothHeadwords(prow) == prow[1] # prow[2]

\* lines 938-953 of CEDICT.process_file: the loop over rows[i..].  The
\* Record `value` and its one-entry list are the same objects in both calls
\* of update_dict.
RECURSIVE CEDICTRows(_, _, _, _)
CEDICTRows(rows, h, data, i) ==
    IF i > Len(rows) THEN [out |-> "none", heap |-> h, d |-> data]
    ELSE IF Len(rows[i]) # 4 THEN CEDICTRows(rows, h, data, i + 1)
    ELSE IF Char(rows[i][1], 1) \in CEDICT.comments
    THEN CEDICTRows(rows, h, data, i + 1)
    ELSE LET prow == CEDICT_process_row(rows[i])
             value == [a \in {key_prefix(CEDICT) \o "entry"} |->
                          Ref(Len(h) + 1)]
         IN Then(update_dict(Append(h, <<prow>>), data,
                             [k \in {prow[1]} |-> value], FALSE, FALSE),
                 LAMBDA h1, d1 :
                     IF BothHeadwords(prow)
                     THEN Then(update_dict(h1, d1, [k \in {prow[2]} |-> value],
                                           FALSE, FALSE),
                               LAMBDA h2, d2 :
                                   CEDICTRows(rows, h2, d2, i + 1))
                     ELSE CEDICTRows(rows, h1, d1, i + 1))

\* CEDICT.process_file, lines 928-954, on the lines of a file
CEDICT_process_file(lines) ==
    Returned_data(CEDICTRows([i \in 1..Len(lines) |->
                                 CEDICT_get_row(lines[i])],
                             <<>>, EmptyDict, 1))

---------------------------------------------------------------------------
(* sources: the Unicode property table parser, Unihan *)

\* the class attributes of Unihan, lines 1109-1117, and the comments
\* argument of line 1166
Unihan ==
    [name |-> "UNIHAN",
     headers |-> <<"character", "field", "value">>,
     index_column |-> 0,
     exclude |-> {},
     comments |-> {"#"}]

HexDigits == <<"0", "1", "2", "3", "4", "5", "6", "7", "8", "9",
               "A", "B", "C", "D", "E", "F">>
LowerHex == <<"0", "1", "2", "3", "4", "5", "6", "7", "8", "9",
              "a", "b", "c", "d", "e", "f">>

\* every character of s is an upper-case hexadecimal digit
IsHex(s) == \A i \in 1..Len(s) : Char(s, i) \in Range(HexDigits)

\* h.strip('U+'): the characters U and + are removed from both ends
RECURSIVE Strip(_)
Strip(h) ==
    IF h = "" THEN ""
    ELSE IF Char(h, 1) \in {"U", "+"} THEN Strip(SubSeq(h, 2, Len(h)))
    ELSE IF Char(h, Len(h)) \in {"U", "+"}
    THEN Strip(SubSeq(h, 1, Len(h) - 1))
    ELSE h

\* utils.hex_to_chr, lines 13-22: int(h.strip('U+'), 16) raises ValueError
\* unless digits are left
hex_to_chr_error(h) ==
    IF Strip(h) = "" \/ ~IsHex(Strip(h)) THEN "ValueError" ELSE "none"

\* chr(ordinal), the character written as its escape: U+4E00 is 一
RECURSIVE Lower(_)
Lower(s) ==
    IF s = "" THEN ""
    ELSE LowerHex[CHOOSE n \in 1..16 : HexDigits[n] = Char(s, 1)]
             \o Lower(SubSeq(s, 2, Len(s)))
hex_to_chr(h) == "\\u" \o Lower(Strip(h))

\* the length of the run of hexadecimal digits of s from position i on
RECURSIVE HexRun(_, _)
HexRun(s, i) ==
    IF i > Len(s) \/ Char(s, i) \notin Range(HexDigits) THEN 0
    ELSE 1 + HexRun(s, i + 1)

\* re.sub('U\+[A-F0-9]*', hex_to_chr, s), line 1180, and whether it raises
RECURSIVE SubCodePoints(_)
SubCodePoints(s) ==
    IF s = "" THEN ""
    ELSE IF At(s, 1, "U+")
    THEN LET n == HexRun(s, 3)
         IN hex_to_chr(SubSeq(s, 1, 2 + n))
                \o SubCodePoints(SubSeq(s, 3 + n, Len(s)))
    ELSE Char(s, 1) \o SubCodePoints(SubSeq(s, 2, Len(s)))
SubCodePointsError(s) ==
    IF \E i \in 1..Len(s) : At(s, i, "U+") /\ HexRun(s, i + 2) = 0
    THEN "ValueError" ELSE "none"

\* `'U+' in s`
HasCodePoint(s) == \E i \in 1..Len(s) : At(s, i, "U+")

\* Unihan.process_row, lines 1174-1181: the row is skipped
Unihan_skipped(row) ==
    \/ Len(row) = 0
    \/ row[1] # "" /\ Char(row[1], 1) \in Unihan.comments

\* the exception Unihan.process_row raises on a row it does not skip, and the
\* row it returns: row[0] becomes the character, and the code points in the
\* last field become characters (the last field of a row of one field is
\* row[0], already a character)
Unihan_process_row_error(row) ==
    IF row[1] = "" THEN "IndexError"
    ELSE IF hex_to_chr_error(SubSeq(row[1], 3, Len(row[1]))) # "none"
    THEN "ValueError"
    ELSE IF Len(row) > 1 /\ HasCodePoint(row[Len(row)])
    THEN SubCodePointsError(row[Len(row)])
    ELSE "none"
Unihan_process_row(row) ==
    LET r1 == [row EXCEPT ![1] = hex_to_chr(SubSeq(row[1], 3, Len(row[1])))]
        n == Len(row)
    IN IF HasCodePoint(r1[n]) THEN [r1 EXCEPT ![n] = SubCodePoints(r1[n])]
       ELSE r1

\* lines 1163-1172 of Unihan.process_file: the loop over rows[i..]; a raising
\* row ends the call
RECURSIVE UnihanRows(_, _, _, _)
UnihanStore(rows, h, data, i, row) ==
    LET excluded_columns == {Unihan.index_column}
        key == row[Unihan.index_column + 1]
        trow == trim_list(row, excluded_columns)
    IN IF Len(trow) < 2
       THEN [out |-> "IndexError", heap |-> h, d |-> data]
       ELSE Then(update_dict(h, data,
                             [k \in {key} |->
                                 [a \in {key_prefix(Unihan) \o trow[1]} |->
                                     Str(trow[2])]],
                             FALSE, FALSE),
                 LAMBDA h1, d1 : UnihanRows(rows, h1, d1, i + 1))
UnihanRows(rows, h, data, i) ==
    IF i > Len(rows) THEN [out |-> "none", heap |-> h, d |-> data]
    ELSE IF Unihan_skipped(rows[i]) THEN UnihanRows(rows, h, data, i + 1)
    ELSE IF Unihan_process_row_error(rows[i]) # "none"
    THEN [out |-> Unihan_process_row_error(rows[i]), heap |-> h, d |-> data]
    ELSE UnihanStore(rows, h, data, i, Unihan_process_row(rows[i]))

\* Unihan.process_file, lines 1148-1172, run in heap h
Unihan_process_file(h, rows) == UnihanRows(rows, h, EmptyDict, 1)

\* the dataset of a file is merged into the instance's under the rule of
\* update_dict; the merge that replaces the held dataset is not the code's
ReplaceBy(h, data, d) == [heap |-> h, d |-> d]
MergeInto(h, data, d) == update_dict(h, data, d, FALSE, FALSE)

\* BaseSource.read, lines 80-84, for the extracted files of Unihan: each
\* file is processed and its dataset merged into self.data; a raising file
\* ends the call
RECURSIVE Unihan_read_files(_, _, _, _)
Unihan_merge_file(files, data, i, r) ==
    IF r.out # "none" THEN [out |-> r.out, heap |-> r.heap, d |-> data]
    ELSE Then(MergeInto(r.heap, data, r.d),
              LAMBDA h1, d1 : Unihan_read_files(files, h1, d1, i + 1))
Unihan_read_files(files, h, data, i) ==
    IF i > Len(files) THEN [out |-> "none", heap |-> h, d |-> data]
    ELSE Unihan_merge_file(files, data, i, Unihan_process_file(h, files[i]))

\* read() on an instance whose data is empty: the outcome, and self.data as
\* the call leaves it, also when it raises
Unihan_read(files) ==
    LET m == Unihan_read_files(files, <<>>, EmptyDict, 1)
    IN [out |-> m.out, prows |-> <<>>, data |-> View(m.heap, m.d)]

---------------------------------------------------------------------------
(* Parsing a file that may hold malformed lines *)

\* a line of a delimited-text file: a data line with its word and count, a
\* comment line, or a line the format does not allow: a blank line, a line
\* whose first field is empty, a line that ends after its first field
DataLines(words, counts) ==
    {[t |-> "row", word |-> w, count |-> c] : w \in words, c \in counts}
OtherLines ==
    {[t |-> x, word |-> "", count |-> ""] :
        x \in {"comment", "blank", "nofirst", "short"}}

\* the lines of a file of the generic parser: the index column may be empty
CSVLines == DataLines({"k1", "k2", ""}, {"10", "20"}) \cup OtherLines

\* the lines of a frequency file: the count may be no number
FrequencyLines == DataLines({"k1", "k2"}, {"10", "x"}) \cup OtherLines

\* the row csv.reader yields for a data line or comment of a file of HSK
\* (word, level) or of a Jun Da list (number, character, count, ...)
CSVRowOf(desc, line, i) ==
    IF line.t = "comment"
    THEN <<CHOOSE c \in desc.comments : TRUE>> \o <<"c">>
    ELSE [j \in 1..Len(desc.headers) |->
             IF j = desc.index_column + 1 THEN line.word
             ELSE IF j = 1 THEN StrOf(i)
             ELSE IF j <= 3 THEN line.count
             ELSE "f"]

\* the row csv.reader yields for the i-th line of a file: [] for a blank
\* line, fewer fields for a line that ends early
AnyRowOf(desc, line, i) ==
    LET full == IF desc \in {SUBTLEX, LWCWords}
                THEN RowOf(desc, [line EXCEPT !.t = IF @ = "comment"
                                                  THEN @ ELSE "row"], i)
                ELSE CSVRowOf(desc, [line EXCEPT !.t = IF @ = "comment"
                                                     THEN @ ELSE "row"], i)
        some == [t |-> "row", word |-> "k1", count |-> "10"]
        given == IF desc \in {SUBTLEX, LWCWords} THEN RowOf(desc, some, i)
                 ELSE CSVRowOf(desc, some, i)
    IN IF line.t = "blank" THEN <<>>
       ELSE IF line.t = "nofirst" THEN [given EXCEPT ![1] = ""]
       ELSE IF line.t = "short" THEN SubSeq(given, 1, 1)
       ELSE full

\* the lines of a dictionary file: entries, two of them with the same first
\* headword, one with a reading of two syllables, one with two definitions;
\* a line that has the form of an entry and starts with the comment sign; a
\* comment; a blank line
CEDICTLines ==
    {"k1 k2 [xue2] /learn/",
     "k1 k1 [yi1] /one/",
     "k2 k2 [lu:4 se4] /green/verdant/",
     "k2 k1 [xue2] /study/",
     "#k1 k2 [yi1] /one/",
     "# comment",
     ""}

\* the rows csv.reader yields for the lines of the Unihan files: a character,
\* a field and its value; a comment; a blank line; a line that ends after
\* the field; a line that does not start with a code point
UnihanRowSet ==
    {<<c, fv[1], fv[2]>> :
        c \in {"U+4E00", "U+4E8C"},
        fv \in {<<"kMandarin", "ci2">>, <<"kMandarin", "ci3">>,
                <<"kSimplifiedVariant", "U+523E">>}}
    \cup {<<"# c">>, <<>>, <<"U+4E00", "kMandarin">>,
          <<"k1", "kMandarin", "ci2">>}

\* a file of one of the delimited-text sources, a dictionary file, or the
\* two files of the Unihan archive, not yet processed
InitRows ==
    /\ IdleMerge
    /\ IdleSource
    /\ \E n \in 0..MaxRows :
       \/ \E desc \in {HSK, JunDa} :
          \E lines \in [1..n -> CSVLines] :
              pf = NotRun(desc, [i \in 1..n |-> AnyRowOf(desc, lines[i], i)])
       \/ \E desc \in {SUBTLEX, LWCWords} :
          \E lines \in [1..n -> FrequencyLines] :
              pf = NotRun(desc, [i \in 1..n |-> AnyRowOf(desc, lines[i], i)])
       \/ \E lines \in [1..n -> CEDICTLines] : pf = NotRun(CEDICT, lines)
       \/ \E rows \in [1..n -> UnihanRowSet], cut \in 0..n :
              pf = NotRun(Unihan, <<SubSeq(rows, 1, cut),
                                    SubSeq(rows, cut + 1, n)>>)

\* the parser after its run
Ran(p, r) ==
    [p EXCEPT !.ran = TRUE, !.out = r.out, !.prows = r.prows, !.data = r.data]

\* data = self.process_file(filename, contents), HSK and BaseJunDa
CSVProcessFileCall ==
    /\ ~pf.ran
    /\ pf.desc \in {HSK, JunDa}
    /\ pf' = Ran(pf, CSVMixin_process_file(pf.desc, pf.rows))
    /\ UNCHANGED <<mergeVars, sourceVars>>

\* data = self.process_file(filename, contents), CEDICT
CEDICTProcessFileCall ==
    /\ ~pf.ran
    /\ pf.desc = CEDICT
    /\ pf' = Ran(pf, CEDICT_process_file(pf.rows))
    /\ UNCHANGED <<mergeVars, sourceVars>>

\* self.read() on a Unihan instance with its files extracted
UnihanReadCall ==
    /\ ~pf.ran
    /\ pf.desc = Unihan
    /\ pf' = Ran(pf, Unihan_read(pf.rows))
    /\ UNCHANGED <<mergeVars, sourceVars>>

NextRows ==
    \/ ProcessFileCall
    \/ CSVProcessFileCall
    \/ CEDICTProcessFileCall
    \/ UnihanReadCall

\* a parser run on one file, or read() run on the files of Unihan
SpecRows == InitRows /\ [][NextRows]_vars

---------------------------------------------------------------------------
(* The last call, for the properties below *)

IsUpdate == call.op = "update_dict"
IsMash == call.op = "mash"

\* d and other as update_dict received them, and d as it left it
PreD == pre.src[call.d]
PreO == pre.src[call.other]
PostD == src[call.d]

\* the (key, attribute) slots both d and other held when the call was made
SharedSlots ==
    {t \in Keys \X Attrs :
        /\ t[1] \in DOMAIN PreD /\ t[1] \in DOMAIN PreO
        /\ t[2] \in DOMAIN PreD[t[1]] /\ t[2] \in DOMAIN PreO[t[1]]}

PreDVal(t) == ViewVal(pre.heap, PreD[t[1]][t[2]])
PreOVal(t) == ViewVal(pre.heap, PreO[t[1]][t[2]])
PostDVal(t) == ViewVal(heap, PostD[t[1]][t[2]])

\* mash was given two or more arguments, all of them datasets
IsMashOfDatasets ==
    /\ IsMash
    /\ Len(call.args) >= 2
    /\ \A i \in 1..Len(call.args) : IsDataset(call.args[i])

\* the i-th argument of mash as it was when the call was made
PreArg(i) == pre.src[call.args[i]]

---------------------------------------------------------------------------
(* C1 *)

\* C1: mash with fewer than two sources raises ValueError to the caller; it
\* does not hand back a value.
C1_FewSourcesRaise ==
    (IsMash /\ Len(call.args) < 2)
        => (out.kind = "raise" /\ out.exc = "ValueError")

---------------------------------------------------------------------------
(* C2 *)

\* C2: for mash(S1, ..., Sn, annotate=True) with n >= 2 the result's key set
\* is exactly the key set of S1, every attribute of S1 is present in the
\* result with the values S1 gave it, and a key that occurs only in S2..Sn
\* is not in the result.
C2_FirstSourceSeeds ==
    (IsMashOfDatasets /\ call.annotate) =>
        /\ out.kind = "return" /\ out.exc = "none"
        /\ DOMAIN out.val = DOMAIN PreArg(1)
        /\ \A k \in DOMAIN PreArg(1) : \A a \in DOMAIN PreArg(1)[k] :
              /\ a \in DOMAIN out.val[k]
              /\ Members(ViewVal(pre.heap, PreArg(1)[k][a]))
                    \subseteq Members(ViewVal(heap, out.val[k][a]))
        /\ \A k \in Keys :
              k \notin DOMAIN PreArg(1) => k \notin DOMAIN out.val

\* an annotate mash of three arguments whose later sources hold a key that
\* the non-empty first source lacks
C2_Witness ==
    /\ IsMashOfDatasets /\ call.annotate
    /\ Len(call.args) = 3
    /\ PreArg(1) # EmptyDict
    /\ \E i \in 2..3 : \E k \in DOMAIN PreArg(i) : k \notin DOMAIN PreArg(1)
    /\ out.kind = "return"

---------------------------------------------------------------------------
(* C3 *)

\* C3: mash(A, A) with annotate=False yields a mapping equal to A's data: no
\* value is duplicated and no scalar is promoted to a list.
C3_MashSelfRoundTrip ==
    (/\ IsMashOfDatasets /\ ~call.annotate
     /\ Len(call.args) = 2 /\ call.args[1] = call.args[2])
        => (/\ out.kind = "return"
            /\ View(heap, out.val) = View(pre.heap, PreArg(1)))

---------------------------------------------------------------------------
(* C4 *)

DisjointAttrs(D, O) ==
    \A k \in DOMAIN D \cap DOMAIN O : (DOMAIN D[k] \cap DOMAIN O[k]) = {}

RecordUnion(R, S) ==
    [a \in DOMAIN R \cup DOMAIN S |-> IF a \in DOMAIN R THEN R[a] ELSE S[a]]

UnionPerKey(VD, VO) ==
    [k \in DOMAIN VD \cup DOMAIN VO |->
        IF k \in DOMAIN VD /\ k \in DOMAIN VO THEN RecordUnion(VD[k], VO[k])
        ELSE IF k \in DOMAIN VD THEN VD[k] ELSE VO[k]]

\* C4: when the Records of D and O have disjoint attribute names under every
\* shared key, update_dict(D, O) without annotate leaves D equal to the
\* per-key union of the two, and merging D into O instead gives the same
\* mapping.
C4_DisjointUnion ==
    (IsUpdate /\ ~call.annotate /\ DisjointAttrs(PreD, PreO)) =>
        /\ View(heap, PostD)
              = UnionPerKey(View(pre.heap, PreD), View(pre.heap, PreO))
        /\ LET rev == update_dict(pre.heap, PreO, PreD,
                                  call.allow_duplicates, FALSE)
           IN View(rev.heap, rev.d) = View(heap, PostD)

\* such a merge where a key is shared and each side also has a key of its own
C4_Witness ==
    /\ IsUpdate /\ ~call.annotate /\ DisjointAttrs(PreD, PreO)
    /\ (DOMAIN PreD \cap DOMAIN PreO) # {}
    /\ (DOMAIN PreO \ DOMAIN PreD) # {}
    /\ \E k \in DOMAIN PreD \cap DOMAIN PreO :
          Cardinality(DOMAIN PostD[k]) = Cardinality(Attrs)

---------------------------------------------------------------------------
(* C5 *)

\* C5: after update_dict(D, O, annotate=True) the key set of D is exactly the
\* key set D had before the call.
C5_AnnotateKeepsKeys ==
    (IsUpdate /\ call.annotate) => DOMAIN PostD = DOMAIN PreD

\* an annotate merge where other holds a key d lacks
C5_Witness ==
    /\ IsUpdate /\ call.annotate
    /\ (DOMAIN PreO \ DOMAIN PreD) # {}
    /\ (DOMAIN PreO \cap DOMAIN PreD) # {}

---------------------------------------------------------------------------
(* C6 *)

\* C6: when D[k][a] is a scalar x and O[k][a] is a different scalar y,
\* update_dict(D, O) leaves D[k][a] equal to the list [x, y].
C6_ConflictPromotes ==
    IsUpdate =>
        \A t \in SharedSlots :
            (/\ ~PreDVal(t).isList /\ ~PreOVal(t).isList
             /\ PreDVal(t).s # PreOVal(t).s)
                => PostDVal(t) = L(<<PreDVal(t).s, PreOVal(t).s>>)

\* a merge of two different scalars under the same key and attribute
C6_Witness ==
    /\ IsUpdate
    /\ \E t \in SharedSlots :
          /\ ~PreDVal(t).isList /\ ~PreOVal(t).isList
          /\ PreDVal(t).s # PreOVal(t).s
          /\ PostDVal(t).isList

---------------------------------------------------------------------------
(* C7 *)

\* d's value already holds other's: the same scalar, or a list containing it
AlreadyHeld(t) ==
    /\ ~PreOVal(t).isList
    /\ \/ ~PreDVal(t).isList /\ PreDVal(t).s = PreOVal(t).s
       \/ PreDVal(t).isList /\ PreOVal(t).s \in Range(PreDVal(t).items)

\* C7: with allow_duplicates=False, merging a value that D[k][a] already
\* holds leaves D[k][a] unchanged.
C7_HeldValueDropped ==
    (IsUpdate /\ ~call.allow_duplicates) =>
        \A t \in SharedSlots : AlreadyHeld(t) => PostDVal(t) = PreDVal(t)

\* such a merge where d holds a list of two containing other's scalar
C7_Witness ==
    /\ IsUpdate /\ ~call.allow_duplicates
    /\ \E t \in SharedSlots :
          /\ AlreadyHeld(t)
          /\ PreDVal(t).isList /\ Len(PreDVal(t).items) >= 2

---------------------------------------------------------------------------
(* C8 *)

\* C8: with allow_duplicates=True, merging O[k][a] = x into D[k][a] = x
\* leaves D[k][a] = [x, x], and each further such merge appends one more x.
C8_DuplicatesRetained ==
    (IsUpdate /\ call.allow_duplicates) =>
        \A t \in SharedSlots :
            ~PreOVal(t).isList =>
                /\ (~PreDVal(t).isList /\ PreDVal(t).s = PreOVal(t).s)
                      => PostDVal(t) = L(<<PreOVal(t).s, PreOVal(t).s>>)
                /\ (PreDVal(t).isList /\ Range(PreDVal(t).items) = {PreOVal(t).s})
                      => PostDVal(t) = L(Append(PreDVal(t).items, PreOVal(t).s))

\* the second such merge: [x, x] has become [x, x, x]
C8_Witness ==
    /\ IsUpdate /\ call.allow_duplicates
    /\ \E t \in SharedSlots :
          /\ ~PreOVal(t).isList
          /\ PreDVal(t) = L(<<PreOVal(t).s, PreOVal(t).s>>)
          /\ Len(PostDVal(t).items) = Len(PreDVal(t).items) + 1

---------------------------------------------------------------------------
(* C9 *)

\* every string M[k][a] held in heap h is held by D[k][a] after the call
Kept(h, M) ==
    \A k \in DOMAIN M : \A a \in DOMAIN M[k] :
        /\ k \in DOMAIN PostD
        /\ a \in DOMAIN PostD[k]
        /\ Members(ViewVal(h, M[k][a]))
              \subseteq Members(ViewVal(heap, PostD[k][a]))

\* C9: after update_dict(D, O) without annotate, every value that D[k][a]
\* held before the call and every value of O[k][a] is still present in
\* D[k][a], as the scalar itself or as a member of the list.
C9_NothingOverwritten ==
    (IsUpdate /\ ~call.annotate) =>
        (Kept(pre.heap, PreD) /\ Kept(pre.heap, PreO))

\* such a merge where d and other held different lists in the same slot and
\* d's list has grown
C9_Witness ==
    /\ IsUpdate /\ ~call.annotate
    /\ \E t \in SharedSlots :
          /\ PreDVal(t).isList /\ PreOVal(t).isList
          /\ PreDVal(t) # PreOVal(t)
          /\ Len(PostDVal(t).items) > Len(PreDVal(t).items)

---------------------------------------------------------------------------
(* C10 *)

\* C10: the dataset of each source after mash returns is equal to its
\* dataset before the call.
C10_MashLeavesSources ==
    IsMash => \A o \in Objs : View(heap, src[o]) = View(pre.heap, pre.src[o])

---------------------------------------------------------------------------
(* C11 *)

\* C11: mash called with two or more arguments of which at least one, in any
\* position, is neither a dataset mapping nor a Source raises TypeError, and
\* nothing has been merged by then: no dataset and no list object has changed.
C11_BadArgumentRaises ==
    (/\ IsMash /\ Len(call.args) >= 2
     /\ \E i \in 1..Len(call.args) : ~IsDataset(call.args[i]))
        => (/\ out = Raised("TypeError")
            /\ heap = pre.heap
            /\ src = pre.src)

\* the offending argument comes last, after two sources whose merge would
\* have extended a list of the first
C11_Witness ==
    /\ IsMash /\ out = Raised("TypeError")
    /\ Len(call.args) = 3
    /\ IsDataset(call.args[1]) /\ IsDataset(call.args[2])
    /\ ~IsDataset(call.args[3])
    /\ LET m == update_dict(pre.heap, PreArg(1), PreArg(2), FALSE, FALSE)
       IN View(m.heap, PreArg(1)) # View(pre.heap, PreArg(1))


---------------------------------------------------------------------------
(* The last method call on a source, for the properties below *)

IsRead == last.op = "read"
IsDownload == last.op = "download"
IsRemote == site.kind # "local"

\* the instance the last call was made on holds no files: files is None or
\* an empty tuple
HeldNoFiles == ~last.inst.files.some \/ last.inst.files.paths = <<>>

\* the instance the last call was made on has an empty dataset
HeldNoData == last.inst.hasData /\ last.inst.data = EmptyDict

\* ... a populated dataset (READY)
WasReady == last.inst.hasData /\ last.inst.data # EmptyDict

---------------------------------------------------------------------------
(* C12 *)

---------------------------------------------------------------------------
(* C13 *)

\* C13: download(force_download=False) on a remote instance, plain or
\* archive, whose dataset is populated returns having fetched nothing,
\* extracted nothing and made no temporary directory; the instance (files and
\* temp_dir included) and the environment are as they were.
C13_CacheHitDoesNothing ==
    (IsDownload /\ ~last.force /\ WasReady)
        => (/\ last.out = Ret
            /\ last.io = NoIO
            /\ inst = last.inst
            /\ env = last.env)

\* the first call on an archive instance that got its dataset from the cache
C13_Witness ==
    /\ IsDownload /\ ~last.force /\ WasReady
    /\ site.kind = "archive"
    /\ last.since = 1 /\ last.inst.cache_data
    /\ last.inst.files = NoneFiles
    /\ last.out = Ret /\ last.io = NoIO

---------------------------------------------------------------------------
(* C14 *)

\* C14: download(force_download=False) on a remote instance, plain or
\* archive, that holds downloaded files and an empty dataset returns having
\* fetched and extracted nothing, with files and temp_dir as they were.
C14_AlreadyAcquiredDoesNothing ==
    (IsDownload /\ ~last.force /\ HeldNoData /\ ~HeldNoFiles)
        => (/\ last.out = Ret
            /\ last.io = NoIO
            /\ inst.files = last.inst.files
            /\ inst.temp_dir = last.inst.temp_dir)

---------------------------------------------------------------------------
(* C15 *)

\* C15: download(force_download=True) on a remote instance in any lifecycle
\* state, with caching on or off, completes when the network delivers: the
\* call returns, the dataset is empty, the cache entry (if there is a cache)
\* is empty, and files names what was fetched into a fresh temporary
\* directory.
C15_ForcedDownloadCompletes ==
    (IsDownload /\ last.force /\ last.net = "ok" /\ last.inst.hasData)
        => (/\ last.out = Ret
            /\ last.io.fetched
            /\ inst.hasData /\ inst.data = EmptyDict
            /\ inst.cache_data => env.store = Entry(EmptyDict)
            /\ inst.temp_dir \notin last.env.dirs
            /\ inst.files.some
            /\ \A n \in 1..Len(inst.files.paths) :
                   inst.files.paths[n].dir = inst.temp_dir)

---------------------------------------------------------------------------
(* C16 *)

\* C16: whenever read() of a remote source returns, temp_dir is None, files
\* is None, and the temporary directory the instance held is deleted.
C16_ReadLeavesNoResidue ==
    (IsRead /\ IsRemote /\ last.out = Ret)
        => (/\ inst.temp_dir = 0
            /\ inst.files = NoneFiles
            /\ last.inst.temp_dir \notin env.dirs)

---------------------------------------------------------------------------
(* C17 *)

\* C17: with caching on, once an instance has run read() to its end (and the
\* cache entry has not been deleted since), a newly constructed instance with
\* caching on is READY at once: its dataset is the one that was parsed and is
\* populated, and its first download(force_download=False) or read() returns
\* having fetched and parsed nothing, leaving files None and the dataset as
\* it is.
C17_NewInstanceIsReady ==
    /\ (last.op = "new" /\ last.bornDone)
           => (/\ inst.hasData /\ HasData(inst)
               /\ inst.data = env.done.data
               /\ inst.files = NoneFiles)
    /\ (/\ last.bornDone /\ last.since = 1
        /\ IsRead \/ (IsDownload /\ ~last.force))
           => (/\ last.out = Ret
               /\ last.io = NoIO
               /\ inst.files = NoneFiles
               /\ inst.data = env.done.data)

---------------------------------------------------------------------------
(* C18 *)

\* C18: read() called on a READY instance (its dataset is populated), remote
\* or local, leaves the dataset equal to what it was, list-valued attributes
\* included.
C18_RereadIsNoOp ==
    (IsRead /\ WasReady) => inst.data = last.inst.data

---------------------------------------------------------------------------
(* C19 *)

\* C19: a read() that aborts partway, a file failing to be read or
\* processed, leaves the dataset as it was before the call (empty): the
\* records of the files processed before the failure are not exposed.
C19_AbortedReadLeavesDataset ==
    (IsRead /\ last.out = Exc("FileError")) => inst.data = last.inst.data

---------------------------------------------------------------------------
(* The last parser run, for the properties below *)

\* the rows process_row accepted, in file order, and after the sort
FileOrder == Accepted(pf.desc, pf.rows)
RankOrder == pf.prows

KeyOf(row) == row[pf.desc.index_column + 1]
CountOf(row) == IntOf(row[pf.desc.count_column + 1])
NumberAttr == pf.desc.name \o "-number"

\* the rank order is the file order sorted by count, descending, the rows of
\* equal count in their file order
RankedStably ==
    /\ Len(RankOrder) = Len(FileOrder)
    /\ \A p \in 1..(Len(RankOrder) - 1) :
           CountOf(RankOrder[p]) >= CountOf(RankOrder[p + 1])
    /\ \A c \in Counts :
           SelectSeq(RankOrder, LAMBDA r : CountOf(r) = IntOf(c))
               = SelectSeq(FileOrder, LAMBDA r : CountOf(r) = IntOf(c))

\* the positions in the rank order of the rows with key k, ascending, as
\* str() writes them
RanksOf(k) ==
    LET pos == SelectSeq([p \in 1..Len(RankOrder) |-> p],
                         LAMBDA p : KeyOf(RankOrder[p]) = k)
    IN [j \in 1..Len(pos) |-> StrOf(pos[j])]

---------------------------------------------------------------------------
(* C20 *)

\* C20: in the frequency-ranked parsers the accepted rows are ordered by
\* count, descending, rows of equal count in file order, and the Record of
\* every accepted row has a `number` attribute equal to the row's 1-based
\* position in that order.
C20_EveryRowNumbered ==
    pf.ran =>
        /\ RankedStably
        /\ \A p \in 1..Len(RankOrder) :
               /\ KeyOf(RankOrder[p]) \in DOMAIN pf.data
               /\ NumberAttr \in DOMAIN pf.data[KeyOf(RankOrder[p])]
               /\ pf.data[KeyOf(RankOrder[p])][NumberAttr] = V(StrOf(p))

\* C20, amended: the order is as stated, and the `number` of a Record is the
\* position of its row when one accepted row has the key, and the list of
\* the positions of its rows, ascending, when several accepted rows share
\* the key; the positions over all Records are 1..n, each once.
C20_RanksAssigned ==
    pf.ran =>
        /\ RankedStably
        /\ DOMAIN pf.data = {KeyOf(RankOrder[p]) : p \in 1..Len(RankOrder)}
        /\ \A k \in DOMAIN pf.data :
               /\ NumberAttr \in DOMAIN pf.data[k]
               /\ pf.data[k][NumberAttr] =
                      IF Len(RanksOf(k)) = 1 THEN V(RanksOf(k)[1])
                      ELSE L(RanksOf(k))

\* a file whose rows the sort moves, with two rows of equal count and two
\* rows of the same word
C20_Witness ==
    /\ pf.ran
    /\ Len(FileOrder) = MaxRows
    /\ RankOrder # FileOrder
    /\ \E p \in 1..(Len(RankOrder) - 1) :
           /\ CountOf(RankOrder[p]) = CountOf(RankOrder[p + 1])
           /\ RankOrder[p] # RankOrder[p + 1]
    /\ \E k \in DOMAIN pf.data :
           /\ NumberAttr \in DOMAIN pf.data[k]
           /\ pf.data[k][NumberAttr].isList

---------------------------------------------------------------------------
(* C21 *)

\* the counts of the accepted rows, in file order
FileCounts == [i \in 1..Len(FileOrder) |-> CountOf(FileOrder[i])]

\* the `number` the Record of row's key holds for that row: n is the value of
\* the attribute, or one of the items of its list
NumberedAs(row, n) ==
    /\ KeyOf(row) \in DOMAIN pf.data
    /\ NumberAttr \in DOMAIN pf.data[KeyOf(row)]
    /\ StrOf(n) \in Members(pf.data[KeyOf(row)][NumberAttr])

\* C21: three accepted rows whose counts are 10, 30 and 20 in file order get
\* the numbers 2, 1 and 3.
C21_RankExample ==
    (pf.ran /\ FileCounts = <<10, 30, 20>>)
        => (/\ NumberedAs(FileOrder[1], 2)
            /\ NumberedAs(FileOrder[2], 1)
            /\ NumberedAs(FileOrder[3], 3))

\* C21, amended: three accepted rows whose counts are 10, 30 and 20 in file
\* order are ranked third, first and second, and the numbers assigned to them
\* are 3, 1 and 2: each is the `number` of the row's Record, which is that
\* value alone when the three rows have three different words.
C21_RankExampleDescending ==
    (pf.ran /\ FileCounts = <<10, 30, 20>>)
        => (/\ RankOrder = <<FileOrder[2], FileOrder[3], FileOrder[1]>>
            /\ NumberedAs(FileOrder[1], 3)
            /\ NumberedAs(FileOrder[2], 1)
            /\ NumberedAs(FileOrder[3], 2)
            /\ Cardinality({KeyOf(FileOrder[i]) : i \in 1..3}) = 3
                   => (/\ pf.data[KeyOf(FileOrder[1])][NumberAttr] = V("3")
                       /\ pf.data[KeyOf(FileOrder[2])][NumberAttr] = V("1")
                       /\ pf.data[KeyOf(FileOrder[3])][NumberAttr] = V("2")))

\* the example with three different words
C21_Witness ==
    /\ pf.ran /\ FileCounts = <<10, 30, 20>>
    /\ Cardinality({KeyOf(FileOrder[i]) : i \in 1..3}) = 3
    /\ pf.data[KeyOf(FileOrder[1])][NumberAttr] = V("3")
    /\ pf.data[KeyOf(FileOrder[2])][NumberAttr] = V("1")
    /\ pf.data[KeyOf(FileOrder[3])][NumberAttr] = V("2")

---------------------------------------------------------------------------
(* C22 *)

\* the temporary directories on disk that the current instance made: those
\* made since it was constructed
OwnDirs == {d \in env.dirs : d > last.born}

\* C22: whatever download and read calls were made on a remote instance, at
\* most one temporary directory made by it exists, that one is the directory
\* named by temp_dir, and none exists when read() has returned.
C22_OneTempDir ==
    IsRemote =>
        /\ Cardinality(OwnDirs) <= 1
        /\ OwnDirs \subseteq {inst.temp_dir}
        /\ (IsRead /\ last.out = Ret) => OwnDirs = {}

---------------------------------------------------------------------------
(* The last run of a delimited-text parser, for the properties below *)

IsFrequency == pf.desc \in {SUBTLEX, LWCWords}
IsGeneric == pf.desc \in {HSK, JunDa}

\* a row of the file that has every column of the format, a first field
\* that is not empty and, in a frequency file, a number as its count
WellFormed(row) ==
    /\ Len(row) = Len(pf.desc.headers)
    /\ row[1] # ""
    /\ IsFrequency => IsNumeric(row[pf.desc.count_column + 1])

\* a well-formed row that is no comment and that the parser's filter keeps
IsDataRow(row) ==
    /\ WellFormed(row)
    /\ SubSeq(row[1], 1, 1) \notin pf.desc.comments
    /\ IsFrequency => ~Rejected(pf.desc, row)

---------------------------------------------------------------------------
(* C23 *)

\* C23: a row that fails format-specific parsing (a blank line, an empty
\* first field, too few fields, a count that is no number) is skipped: the
\* parser returns, and every well-formed data row of the file has its Record
\* in the dataset returned.
C23_MalformedRowsSkipped ==
    (pf.ran /\ (IsFrequency \/ IsGeneric)) =>
        /\ pf.out = "none"
        /\ \A i \in 1..Len(pf.rows) :
               IsDataRow(pf.rows[i]) =>
                   pf.rows[i][pf.desc.index_column + 1] \in DOMAIN pf.data

---------------------------------------------------------------------------
(* C25 *)

\* the rows the generic parser stores, in file order
StoredRows ==
    SelectSeq(pf.rows, LAMBDA r : ~IsComment(pf.desc, r))

\* the (zero-based) columns a Record may hold
RecordColumns ==
    {c \in 0..(Len(pf.desc.headers) - 1) :
        c \notin pf.desc.exclude \cup {pf.desc.index_column}}

AttrOf(c) == key_prefix(pf.desc) \o pf.desc.headers[c + 1]

\* the values of column c in the stored rows with key k, in file order, each
\* value once
RECURSIVE Once(_)
Once(q) ==
    IF q = <<>> THEN <<>>
    ELSE LET front == Once(SubSeq(q, 1, Len(q) - 1))
             x == q[Len(q)]
         IN IF x \in Range(front) THEN front ELSE Append(front, x)
ColumnOf(k, c) ==
    LET having == SelectSeq(StoredRows,
                            LAMBDA r : KeyOf(r) = k /\ Len(r) > c)
    IN Once([j \in 1..Len(having) |-> having[j][c + 1]])

---------------------------------------------------------------------------
(* The last run of the dictionary parser, for the properties below *)

IsCEDICT == pf.ran /\ pf.desc = CEDICT

\* the entries of the lines that match the entry grammar and are no comment,
\* in file order
EntryLines ==
    SelectSeq(pf.rows,
              LAMBDA l : /\ Matches(l) # {}
                         /\ Char(l, 1) \notin CEDICT.comments)
Entries ==
    [i \in 1..Len(EntryLines) |->
        CEDICT_process_row(CEDICT_get_row(EntryLines[i]))]

\* the `entry` list stored under key k
EntryList(k) == pf.data[k]["CEDICT-entry"].items

\* how often x occurs in the sequence q
Count(q, x) == Cardinality({j \in 1..Len(q) : q[j] = x})

---------------------------------------------------------------------------
(* C24 *)

\* C24: the entry of every dictionary line that matches the entry grammar and
\* is no comment is in the `entry` list under its first headword and in the
\* one under its second headword, so that either headword leads to the same
\* entry: both headwords, the reading and the list of definitions; a line
\* whose headwords are the same is stored under that one key.
C24_EntryUnderBothHeadwords ==
    IsCEDICT =>
        /\ pf.out = "none"
        /\ \A i \in 1..Len(Entries) :
               LET e == Entries[i] IN
               /\ Len(e) = 4
               /\ {e[1], e[2]} \subseteq DOMAIN pf.data
               /\ \A k \in {e[1], e[2]} : e \in Range(EntryList(k))
        /\ DOMAIN pf.data
               = UNION {{Entries[i][1], Entries[i][2]} :
                           i \in 1..Len(Entries)}

\* a line with two different headwords has been processed, its entry is the
\* only one under either headword
C24_Witness ==
    /\ IsCEDICT
    /\ pf.rows = <<"# comment", "k1 k2 [xue2] /learn/">>
    /\ DOMAIN pf.data = {"k1", "k2"}
    /\ pf.data["k1"] = pf.data["k2"]
    /\ EntryList("k2") = <<<<"k1", "k2", "xu\\u00e9", <<"learn">>>>>>

---------------------------------------------------------------------------
(* C29 *)

\* C29: the `entry` list under a key holds only entries that have the key as
\* their first or second headword, and every line's entry is in the list of
\* each of its headwords exactly once (as often as the file has the line).
C29_EntriesOfHeadword ==
    IsCEDICT =>
        \A k \in DOMAIN pf.data :
            /\ \A j \in 1..Len(EntryList(k)) :
                   k \in {EntryList(k)[j][1], EntryList(k)[j][2]}
            /\ \A i \in 1..Len(Entries) :
                   k \in {Entries[i][1], Entries[i][2]} =>
                       Count(EntryList(k), Entries[i])
                           = Count(Entries, Entries[i])

---------------------------------------------------------------------------
(* C26 *)

IsUnihan == pf.ran /\ pf.desc = Unihan

\* the accepted lines of all files as process_row returns them: character,
\* field, value
UnihanAccepted ==
    LET all == pf.rows[1] \o pf.rows[2]
        kept == SelectSeq(all, LAMBDA r : ~Unihan_skipped(r))
    IN [i \in 1..Len(kept) |-> Unihan_process_row(kept[i])]

\* C26: after read() has returned, the Record of a character has one
\* attribute per field name of the accepted lines of that character, in
\* whichever file they are, and for every accepted line (c, f, v) the
\* attribute prefix+f of c is v or a list that contains v.
C26_FieldsAccumulate ==
    (IsUnihan /\ pf.out = "none") =>
        /\ DOMAIN pf.data
               = {UnihanAccepted[i][1] : i \in 1..Len(UnihanAccepted)}
        /\ \A c \in DOMAIN pf.data :
               DOMAIN pf.data[c]
                   = {key_prefix(Unihan) \o UnihanAccepted[i][2] :
                         i \in {j \in 1..Len(UnihanAccepted) :
                                   UnihanAccepted[j][1] = c}}
        /\ \A i \in 1..Len(UnihanAccepted) :
               LET r == UnihanAccepted[i] IN
               r[3] \in Members(pf.data[r[1]][key_prefix(Unihan) \o r[2]])

\* read() has returned for two files: the first holds two readings of a
\* character, the second its variant
C26_Witness ==
    /\ IsUnihan /\ pf.out = "none"
    /\ Len(pf.rows[1]) = 2 /\ Len(pf.rows[2]) = 1
    /\ pf.rows[2][1] = <<"U+4E00", "kSimplifiedVariant", "U+523E">>
    /\ DOMAIN pf.data = {"\\u4e00"}
    /\ DOMAIN pf.data["\\u4e00"]
           = {"UNIHAN-kMandarin", "UNIHAN-kSimplifiedVariant"}
    /\ pf.data["\\u4e00"]["UNIHAN-kMandarin"] = L(<<"ci2", "ci3">>)
    /\ pf.data["\\u4e00"]["UNIHAN-kSimplifiedVariant"] = V("\\u523e")

---------------------------------------------------------------------------
(* C27 *)

\* C27: in the dataset a parser returns, every key is a non-empty string and
\* every attribute name starts with the name of the source followed by "-".
C27_KeysAndPrefixes ==
    (pf.ran /\ pf.out = "none") =>
        \A k \in DOMAIN pf.data :
            /\ k # ""
            /\ \A a \in DOMAIN pf.data[k] : At(a, 1, key_prefix(pf.desc))

---------------------------------------------------------------------------
(* C28 *)

\* no list-valued attribute of the dataset m in heap h has an item twice
NoRepeats(h, m) ==
    \A k \in DOMAIN m : \A a \in DOMAIN m[k] :
        m[k][a].isList =>
            \A i, j \in 1..Len(h[m[k][a].ref]) :
                i # j => h[m[k][a].ref][i] # h[m[k][a].ref][j]

\* C28: with allow_duplicates=False, if no list of d and no list of other has
\* an item twice before update_dict(d, other), then no list of d has one
\* afterwards, also when an incoming list shares items with the held list.
C28_NoRepeats ==
    (/\ IsUpdate /\ ~call.allow_duplicates
     /\ NoRepeats(pre.heap, PreD) /\ NoRepeats(pre.heap, PreO))
        => NoRepeats(heap, PostD)

---------------------------------------------------------------------------
(* C30 *)

\* C30: after read() on a remote source has returned, the instance is READY
\* whatever the files held: the next read() returns and the next
\* download(force_download=False) returns without fetching.
C30_ReadyAfterRead ==
    (/\ IsRemote /\ last.afterRead
     /\ IsRead \/ (IsDownload /\ ~last.force))
        => (last.out = Ret /\ ~last.io.fetched)

=============================================================================
